---- MODULE Spec2Model ----
(***************************************************************************)
(* A model of pulsar's protocol runtime core (pulsar/async/protocols.py):  *)
(* ProtocolConsumer, PulsarProtocol/Connection, Producer and TcpServer.    *)
(*                                                                         *)
(* One TcpServer is modelled together with the protocols (Connection       *)
(* objects) it creates.  A Connection is identified by its position in     *)
(* the sequence `conns` (creation order); a consumer by its position in    *)
(* the sequence `consumers` of its connection (attachment order).          *)
(* Everything runs on one cooperative event loop, so every callback        *)
(* (a transport callback, a timer, a step of a coroutine between two       *)
(* yields, an application call) is one atomic action.                      *)
(***************************************************************************)
EXTENDS Integers, Sequences, FiniteSets, TLC

(* ------------------------------ bounds -------------------------------- *)
\* protocols the accept loop creates
MaxSessions == 2
\* Connection.data_received calls per connection
MaxChunks == 2
\* bytes in one chunk
MaxLen == 2
\* consumers attached to one connection
MaxConsumers == 3
\* close() calls made by the application
MaxCloseCalls == 1
\* application calls per connection (finished, current_consumer, upgrade,
\* start, set_timeout, a repeated connection_made or connection_lost)
MaxAppCalls == 2
\* the max_connections of a server configured with one (0 stands for None)
MaxMaxConnections == 2
\* consumers built by Producer.build_consumer and attached to no connection
MaxDetached == 1
\* callables an application can register as clients of a PubSub handler
MaxClients == 2
\* messages that arrive from the publisher
MaxMessages == 2
\* start_serving calls made on the server
MaxStartCalls == 2
\* requests the server handles before the application stops sending
MaxRequests == 2
\* pre-created sockets a DatagramServer is given
MaxSockets == 2
\* create_endpoint calls, and close calls, made on a DatagramServer
MaxEndpointCalls == 2

None == "None"
\* exceptions a transport can report to connection_lost
Excs == {None, "err"}
\* the bytes: "n" ends a request, "b" is any other byte
Bytes == {"b", "n"}
Chunks == UNION {[1..n -> Bytes] : n \in 1..MaxLen}
\* the chunks of one byte
ByteChunks == {<<b>> : b \in Bytes}
\* keep_alive values: 0 stands for None (no idle timeout)
KeepAlives == {0, 1}
\* the seconds an application passes to set_timeout: 0 disables the timer
Timeouts == {0, 1}
\* the clients of a PubSub handler
Clients == 1..MaxClients
\* consumer factories: 1 is the one the protocol is created with, 2 the one
\* the application passes to upgrade()

VARIABLES
    params,             \* TcpServer: hasattr(self, '_params')
    serving,            \* TcpServer._server is set (not None)
    listening,          \* the runtime accepts connections on the sockets
    startPc,            \* position of the start_serving coroutine
    startEvent,         \* outcome of the one time event 'start'
    stopFired,          \* number of times close() has fired 'stop'
    sessions,           \* Producer._sessions
    requests_processed, \* Producer._requests_processed
    concurrent,         \* TcpServer._concurrent_connections
    max_connections,    \* TcpServer._max_connections (0 is None)
    keep_alive,         \* TcpServer._keep_alive (0 is None)
    tasks,              \* the close() coroutines, in call order
    detached,           \* consumers built and attached to no connection
    pubsub,             \* a PubSub handler: its clients and what they got
    dgram,              \* a DatagramServer and the transports it created
    starts,             \* ghost: what the start_serving calls have done
    hooks,              \* the server's events an application listener is bound to
    conns               \* the protocols created, in creation order

vars == <<params, serving, listening, startPc, startEvent, stopFired, sessions,
          requests_processed, concurrent, max_connections, keep_alive, tasks,
          detached, pubsub, dgram, starts, hooks, conns>>

serverVars == <<params, serving, listening, startPc, startEvent, stopFired,
                max_connections, keep_alive, detached, pubsub, dgram, starts,
                hooks>>

(* --------------------------- ProtocolConsumer -------------------------- *)
(* The operators below work on a context x = [cn |-> a connection record,   *)
(* rp |-> the producer's _requests_processed, hooks |-> the producer's      *)
(* events with a listener]; i is a consumer's index.                        *)

\* the events of a producer that are events of a consumer too
ConsumerEvents == {"pre_request", "post_request"}

\* a consumer as its factory returns it; copied holds the events that have
\* the producer's listener; ghost: hookPre and hookPost count the
\* invocations of that listener
NewConsumer(f) ==
    [factory |-> f, started |-> FALSE, request |-> None, pre |-> FALSE,
     post |-> FALSE, postExc |-> None, listeners |-> <<>>, count |-> 0,
     copied |-> {}, hookPre |-> 0, hookPost |-> 0]

\* EventHandler.copy_many_times_events(producer): the listeners of the
\* producer's many times events are bound to the consumer's events of the
\* same name
copy_many_times_events(consumer, producerHooks) ==
    [consumer EXCEPT
        !.copied = producerHooks \cap ConsumerEvents,
        !.listeners = IF "post_request" \in producerHooks
                      THEN Append(@, "hook") ELSE @]

\* ghost: the event log of a connection and of its consumers
Log(x, ev, i) == [x EXCEPT !.cn.log = Append(@, <<ev, i>>)]

\* faulty variant of build_consumer: the producer's listeners are not copied
build_consumer_no_copy(producerHooks, f) == NewConsumer(f)

\* Producer.build_consumer
build_consumer(producerHooks, f) ==
    copy_many_times_events(NewConsumer(f), producerHooks)

\* Connection.set_consumer; a failed assertion raises AssertionError, counted
\* in the ghost field `asserted`
set_consumer(x, consumer) ==
    IF x.cn.current # 0
    THEN [x EXCEPT !.cn.asserted = @ + 1]
    ELSE [x EXCEPT !.cn.consumers = Append(@, consumer),
                   !.cn.current = Len(x.cn.consumers) + 1]

\* Connection._build_consumer, also a post_request listener
\* ghost: `built` counts the factory invocations
_build_consumer(x, exc) ==
    IF exc = None
    THEN set_consumer([x EXCEPT !.cn.built = @ + 1],
                      build_consumer(x.hooks, x.cn.factory))
    ELSE x

\* faulty variant of _finished: the listener leaves the slot as it is
_finished_keeps_slot(x, i, exc) == x

\* ProtocolConsumer._finished, the post_request listener bound by start()
_finished(x, i, exc) ==
    IF x.cn.current = i THEN [x EXCEPT !.cn.current = 0] ELSE x

\* a listener of post_request invoked on consumer i with outcome exc
CallListener(x, i, l, exc) ==
    IF l = "_finished" THEN _finished(x, i, exc)
    ELSE IF l = "hook" THEN [x EXCEPT !.cn.consumers[i].hookPost = @ + 1]
    ELSE _build_consumer(x, exc)

RECURSIVE RunListeners(_, _, _, _)
\* an event runs its listeners in binding order
RunListeners(x, i, ls, exc) ==
    IF ls = <<>> THEN x
    ELSE RunListeners(CallListener(x, i, Head(ls), exc), i, Tail(ls), exc)

\* EventHandler.fire_event('post_request', exc) on consumer i: a one time
\* event fires once, a later fire is a no-op
fire_post_request(x, i, exc) ==
    IF x.cn.consumers[i].post THEN x
    ELSE RunListeners(
            Log([x EXCEPT !.cn.consumers[i].post = TRUE,
                          !.cn.consumers[i].postExc = exc], "post_request", i),
            i, x.cn.consumers[i].listeners, exc)

\* EventHandler.bind_event('post_request', l) on consumer i: a listener bound
\* to a fired one time event is invoked at once with the stored outcome
bind_post_request(x, i, l) ==
    IF x.cn.consumers[i].post
    THEN CallListener(x, i, l, x.cn.consumers[i].postExc)
    ELSE [x EXCEPT !.cn.consumers[i].listeners = Append(@, l)]

\* EventHandler.fire_event('pre_request') on consumer i
fire_pre_request(x, i) ==
    IF x.cn.consumers[i].pre THEN x
    ELSE Log([x EXCEPT !.cn.consumers[i].pre = TRUE,
                       !.cn.consumers[i].hookPre =
                           IF "pre_request" \in x.cn.consumers[i].copied
                           THEN @ + 1 ELSE @],
             "pre_request", i)

\* ProtocolConsumer.finished
finished(x, i, exc) ==
    IF ~x.cn.consumers[i].post THEN fire_post_request(x, i, exc) ELSE x

\* ProtocolConsumer.connection_lost
consumer_connection_lost(x, i, exc) == finished(x, i, exc)

\* ProtocolConsumer.start raises RuntimeError in these cases
StartRaises(x, i) ==
    x.cn.consumers[i].started \/ x.cn.transport = "none"

\* faulty variant of StartError: start() tests that the transport is open
StartErrorUnlessOpen(consumer, hasConnection, transport) ==
    IF consumer.started THEN "Consumer already started"
    ELSE IF ~hasConnection THEN "No connection"
    ELSE IF transport # "open" THEN "no transport"
    ELSE None

\* the RuntimeError ProtocolConsumer.start raises at its top (None: it goes
\* on), for a consumer with or without a connection, whose _transport is in
\* the state `transport`
StartError(consumer, hasConnection, transport) ==
    IF consumer.started THEN "Consumer already started"
    ELSE IF ~hasConnection THEN "No connection"
    ELSE IF transport = "none" THEN "no transport"
    ELSE None

\* faulty variant of start: the producer's counter is left alone
start_counts_connection_only(x, i, request, raises) ==
    LET x1 == [x EXCEPT !.cn.processed = @ + 1]
        x2 == bind_post_request(x1, i, "_finished")
        x3 == [x2 EXCEPT !.cn.consumers[i].started = TRUE,
                         !.cn.consumers[i].request = request]
        x4 == fire_pre_request(x3, i)
    IN  IF request # None /\ raises THEN finished(x4, i, "err") ELSE x4

\* ProtocolConsumer.start(request) when it does not raise at its top;
\* `raises` tells whether start_request() raises
start(x, i, request, raises) ==
    LET x1 == [x EXCEPT !.cn.processed = @ + 1, !.rp = @ + 1]
        x2 == bind_post_request(x1, i, "_finished")
        x3 == [x2 EXCEPT !.cn.consumers[i].started = TRUE,
                         !.cn.consumers[i].request = request]
        x4 == fire_pre_request(x3, i)
    IN  IF request # None /\ raises THEN finished(x4, i, "err") ELSE x4

\* faulty variant of consumer_start: start() does not test _request
consumer_start_again(x, i, request, raises) ==
    LET e == StartError([x.cn.consumers[i] EXCEPT !.started = FALSE], TRUE,
                        x.cn.transport)
    IN  IF e # None
        THEN [x EXCEPT !.cn.errors = Append(@, <<i, e>>)]
        ELSE start(x, i, request, raises)

\* ProtocolConsumer.start(request) on the consumer i of a connection
\* ghost: errors records the RuntimeErrors raised
consumer_start(x, i, request, raises) ==
    LET e == StartError(x.cn.consumers[i], TRUE, x.cn.transport)
    IN  IF e # None
        THEN [x EXCEPT !.cn.errors = Append(@, <<i, e>>)]
        ELSE start(x, i, request, raises)

\* index of the first "n" of data, 0 when there is none
RECURSIVE FirstEnd(_, _)
FirstEnd(data, k) ==
    IF k > Len(data) THEN 0
    ELSE IF data[k] = "n" THEN k ELSE FirstEnd(data, k + 1)

\* the subclass's data_received: a consumer that reads one request, ended
\* by "n", finishes it and returns the bytes that follow (None when there
\* are none); without an "n" it takes all the bytes and returns None
data_received(x, i, data) ==
    LET k == FirstEnd(data, 1)
    IN  IF k = 0 THEN [x |-> x, rest |-> <<>>]
        ELSE [x |-> finished(x, i, None), rest |-> SubSeq(data, k + 1, Len(data))]

\* faulty variant of _data_received: the implicit start() of the first chunk is missing
_data_received_no_start(x, i, data) ==
    LET x2 == Log([x EXCEPT !.cn.consumers[i].count = @ + 1], "data_received", i)
        r  == data_received(x2, i, data)
    IN  [x |-> Log(r.x, "data_processed", i), rest |-> r.rest]

\* ProtocolConsumer._data_received
_data_received(x, i, data) ==
    LET x1 == IF ~x.cn.consumers[i].started THEN start(x, i, None, FALSE) ELSE x
        x2 == Log([x1 EXCEPT !.cn.consumers[i].count = @ + 1], "data_received", i)
        r  == data_received(x2, i, data)
    IN  [x |-> Log(r.x, "data_processed", i), rest |-> r.rest]

(* ------------------------ PulsarProtocol, Connection ------------------- *)

\* a protocol as TcpServer.create_protocol's protocol_factory returns it;
\* timer is the state of the handle kept in _idle_timeout ("none" is None),
\* pending the number of idle callbacks the loop still has to run;
\* ghost fields: log, fed, app, asserted, built, closedBy, shut, ups, busy
\* (the idle callbacks pending while the last chunk was with the consumers),
\* sets (the argument of each set_timeout call, and whether connection_lost
\* had fired when it was made), lostCalls (the connection_lost calls),
\* errors (the RuntimeErrors of start(), with the consumer that raised)
NewConnection(session, timeout) ==
    [session |-> session, timeout |-> timeout, transport |-> "none",
     made |-> FALSE, lost |-> FALSE, lostExc |-> None, timer |-> "none",
     pending |-> 0,
     current |-> 0, processed |-> 0, factory |-> 1, consumers |-> <<>>,
     log |-> <<>>, fed |-> 0, app |-> 0, asserted |-> 0, built |-> 0,
     closedBy |-> "none", shut |-> FALSE, ups |-> <<>>,
     busy |-> 0, sets |-> <<>>, lostCalls |-> 0, errors |-> <<>>]

\* PulsarProtocol.closed
closed(cn) == cn.transport # "open"

\* faulty variant of _add_idle_timeout: the state of the transport is not tested
_add_idle_timeout_any_transport(cn) ==
    IF cn.timer = "none" /\ cn.timeout # 0
    THEN [cn EXCEPT !.timer = "armed", !.pending = @ + 1]
    ELSE cn

\* PulsarProtocol._add_idle_timeout: call_later schedules one more callback
_add_idle_timeout(cn) ==
    IF ~closed(cn) /\ cn.timer = "none" /\ cn.timeout # 0
    THEN [cn EXCEPT !.timer = "armed", !.pending = @ + 1]
    ELSE cn

\* faulty variant of _cancel_timeout: the handle is dropped without cancel()
_cancel_timeout_no_cancel(cn) ==
    IF cn.timer # "none" THEN [cn EXCEPT !.timer = "none"] ELSE cn

\* PulsarProtocol._cancel_timeout: cancel() of a handle that has not run
\* takes its callback off the loop, cancel() of one that has run does nothing
_cancel_timeout(cn) ==
    IF cn.timer # "none"
    THEN [cn EXCEPT !.timer = "none",
                    !.pending = IF cn.timer = "armed" THEN @ - 1 ELSE @]
    ELSE cn

\* transport.close(): a transport already closing ignores it
\* ghost: closedBy remembers who closed the transport
transport_close(cn, by) ==
    IF cn.transport = "open"
    THEN [cn EXCEPT !.transport = "closing", !.closedBy = by]
    ELSE cn

\* PulsarProtocol.close
protocol_close(cn, by) ==
    IF cn.transport # "none" THEN transport_close(cn, by) ELSE cn

\* PulsarProtocol.set_timeout
set_timeout(cn, timeout) ==
    _add_idle_timeout([_cancel_timeout(cn) EXCEPT !.timeout = timeout])

\* faulty variant of _timed_out: the callback does not close the transport
_timed_out_no_close(cn) == [cn EXCEPT !.timer = "fired", !.pending = @ - 1]

\* PulsarProtocol._timed_out; the handle of the timer that ran stays in
\* _idle_timeout
_timed_out(cn) ==
    protocol_close([cn EXCEPT !.timer = "fired", !.pending = @ - 1], "timer")

\* Connection.current_consumer
current_consumer(x) ==
    IF x.cn.current = 0 THEN _build_consumer(x, None) ELSE x

RECURSIVE FeedLoop(_, _)
\* the while loop of Connection.data_received
FeedLoop(x, data) ==
    IF data = <<>> THEN x
    ELSE LET x1 == current_consumer(x)
             r  == _data_received(x1, x1.cn.current, data)
         IN  FeedLoop(r.x, r.rest)

\* faulty variant of connection_data_received: the loop body runs once before
\* data is tested
connection_data_received_do_while(x, data) ==
    LET x0 == [x EXCEPT !.cn = _cancel_timeout(@)]
        x1 == current_consumer([x0 EXCEPT !.cn.busy = x0.cn.pending])
        r  == _data_received(x1, x1.cn.current, data)
        x2 == FeedLoop(r.x, r.rest)
    IN  [x2 EXCEPT !.cn = _add_idle_timeout(@)]

\* faulty variant of connection_data_received: the idle timer is not armed
\* again after the loop
connection_data_received_no_rearm(x, data) ==
    LET x0 == [x EXCEPT !.cn = _cancel_timeout(@)]
    IN  FeedLoop([x0 EXCEPT !.cn.busy = x0.cn.pending], data)

\* Connection.data_received
connection_data_received(x, data) ==
    LET x0 == [x EXCEPT !.cn = _cancel_timeout(@)]
        x1 == FeedLoop([x0 EXCEPT !.cn.busy = x0.cn.pending], data)
    IN  [x1 EXCEPT !.cn = _add_idle_timeout(@)]

\* Connection.upgrade
\* ghost: ups records, for every call, the consumer that held the slot, the
\* length of the log and the consumer that holds the slot when it returns
upgrade(x, f) ==
    LET x1 == [x EXCEPT !.cn.factory = f]
        x2 == IF x1.cn.current # 0
              THEN bind_post_request(x1, x1.cn.current, "_build_consumer")
              ELSE _build_consumer(x1, None)
    IN  [x2 EXCEPT !.cn.ups = Append(@, <<x.cn.current, Len(x.cn.log),
                                          x2.cn.current>>)]

\* faulty variant of _connection_lost: the error is not handed to the consumer
_connection_lost_drops_error(x, exc) ==
    IF x.cn.current # 0
    THEN consumer_connection_lost(x, x.cn.current, None)
    ELSE x

\* Connection._connection_lost, the listener bound by Connection.__init__
_connection_lost(x, exc) ==
    IF x.cn.current # 0
    THEN consumer_connection_lost(x, x.cn.current, exc)
    ELSE x

\* PulsarProtocol.connection_lost: fires the one time event 'connection_lost';
\* its listeners on the protocol are _cancel_timeout (PulsarProtocol.__init__)
\* and _connection_lost (Connection.__init__), in that order; the server's
\* listener runs after them (see ConnectionLost)
connection_lost(x, exc) ==
    IF x.cn.lost THEN x
    ELSE LET x1 == Log([x EXCEPT !.cn.lost = TRUE, !.cn.lostExc = exc],
                       "connection_lost", 0)
             x2 == [x1 EXCEPT !.cn = _cancel_timeout(@)]
         IN  _connection_lost(x2, exc)

\* faulty variant of connection_made: the event 'connection_made' is not fired
connection_made_no_event(cn) ==
    LET c0 == IF cn.transport # "none" THEN _cancel_timeout(cn) ELSE cn
    IN  [c0 EXCEPT !.transport = "open"]

\* PulsarProtocol.connection_made, up to the listeners of 'connection_made'
connection_made(cn) ==
    LET c0 == IF cn.transport # "none" THEN _cancel_timeout(cn) ELSE cn
        c1 == [c0 EXCEPT !.transport = "open"]
    IN  IF c1.made THEN c1
        ELSE [c1 EXCEPT !.made = TRUE, !.log = Append(@, <<"connection_made", 0>>)]

(* -------------------------------- PubSub -------------------------------- *)
(* A client is a callable; what it does when it is invoked is chosen for     *)
(* each invocation: <<"ok">> returns, <<"io">> raises IOError, <<"exc">>     *)
(* raises another Exception, <<"add", k>> calls add_client(k) and            *)
(* <<"remove", k>> calls remove_client(k) on the handler and returns.        *)

\* ghost: what the last broadcast did; before is the registry it found,
\* calls the invocations of each client, raisers the clients that raised,
\* added and removed the clients its callbacks added and removed, error the
\* exception that left it
NoBroadcast ==
    [before |-> {}, calls |-> [c \in Clients |-> 0], raisers |-> {},
     added |-> {}, removed |-> {}, error |-> None]

\* ghost: the last add_client or remove_client call of the application, with
\* the registry it found; fresh tells that no message has arrived since
NoCall == [name |-> None, client |-> 0, before |-> {}, fresh |-> TRUE]

\* PubSub.__init__; ghost fields: sent (the messages broadcast), got (the
\* messages each client was invoked with), last, call
NewPubSub ==
    [clients |-> {}, sent |-> 0, got |-> [c \in Clients |-> <<>>],
     last |-> NoBroadcast, call |-> NoCall]

\* faulty variant of add_client: a client registered is dropped by a second add
add_client_toggle(clients, client) ==
    IF client \in clients THEN clients \ {client} ELSE clients \cup {client}

\* PubSub.add_client
add_client(clients, client) == clients \cup {client}

\* PubSub.remove_client
remove_client(clients, client) == clients \ {client}

\* client(channel, message), invoked by broadcast, doing what `does` tells;
\* b is the broadcast under way: ps the handler, remove the local set
client_call(b, client, message, does) ==
    LET b1 == [b EXCEPT !.ps.got[client] = Append(@, message),
                        !.ps.last.calls[client] = @ + 1]
    IN  CASE does[1] = "ok" -> b1
          [] does[1] = "io" ->
                [b1 EXCEPT !.raised = "IOError", !.ps.last.raisers = @ \cup {client}]
          [] does[1] = "exc" ->
                [b1 EXCEPT !.raised = "Exception",
                           !.ps.last.raisers = @ \cup {client}]
          [] does[1] = "add" ->
                [b1 EXCEPT !.ps.clients = add_client(@, does[2]),
                           !.ps.last.added =
                               IF does[2] \in b1.ps.clients THEN @
                               ELSE @ \cup {does[2]}]
          [] does[1] = "remove" ->
                [b1 EXCEPT !.ps.clients = remove_client(@, does[2]),
                           !.ps.last.removed =
                               IF does[2] \in b1.ps.clients THEN @ \cup {does[2]}
                               ELSE @]

\* faulty variant of broadcast_try: a client that raises is not marked
broadcast_try_no_mark(b, client, message, does) ==
    [client_call(b, client, message, does) EXCEPT !.raised = None]

\* the try statement of broadcast's loop body: both handlers mark the
\* client, the second one logs first, which changes nothing in the handler
broadcast_try(b, client, message, does) ==
    LET b1 == client_call(b, client, message, does)
    IN  CASE b1.raised = None -> b1
          [] b1.raised = "IOError" ->
                [b1 EXCEPT !.remove = @ \cup {client}, !.raised = None]
          [] b1.raised = "Exception" ->
                [b1 EXCEPT !.remove = @ \cup {client}, !.raised = None]

RECURSIVE broadcast_loop(_, _, _)
\* `for client in self._clients` of broadcast: the iterator of a set raises
\* RuntimeError when the size of the set is not the one it had when the
\* iteration began; todo is the rest of the iteration order, used the size
\* the iterator remembers, does[c] what client c does when invoked
broadcast_loop(b, message, does) ==
    IF Cardinality(b.ps.clients) # b.used
    THEN [b EXCEPT !.ps.last.error = "RuntimeError"]
    ELSE IF b.todo = <<>>
    THEN [b EXCEPT !.ps.clients = @ \ b.remove]
    ELSE broadcast_loop(
            broadcast_try([b EXCEPT !.todo = Tail(@)], Head(b.todo), message,
                          does[Head(b.todo)]),
            message, does)

\* PubSub.broadcast(response), for a handler without codec; message is the
\* number of the message in arrival order, order the order in which the
\* iterator yields the clients of the set
broadcast(ps, message, order, does) ==
    LET ps1 == [ps EXCEPT !.sent = message,
                          !.last = [NoBroadcast EXCEPT !.before = ps.clients],
                          !.call.fresh = FALSE]
    IN  broadcast_loop([ps |-> ps1, used |-> Cardinality(ps.clients),
                        todo |-> order, remove |-> {}, raised |-> None],
                       message, does).ps

\* the orders in which a set can be iterated
Orders(S) ==
    {o \in [1..Cardinality(S) -> S] : \A i, j \in DOMAIN o : i # j => o[i] # o[j]}

\* what a client does when invoked: it returns or raises
Returns == {<<"ok">>}
Raises == {<<"io">>, <<"exc">>}
\* what a client that changes the registry does when invoked
Changes == {<<"add", k>> : k \in Clients} \cup {<<"remove", k>> : k \in Clients}

(* ---------------------------- DatagramServer ---------------------------- *)

\* DatagramServer.__init__ with n pre-created sockets (0: an address is given
\* instead); params is hasattr(self, '_params'), recorded tells that
\* _transports is the list of the transports created (it is None otherwise),
\* start and stop are the outcomes of the one time events; ghost fields:
\* created (the transports created, with the state of each and whether its
\* protocol has seen connection_made and connection_lost), refused (the
\* runtime raised while a transport was created), stopBy (the method that
\* fired stop), calls and closes (the create_endpoint and close calls)
NewDatagramServer(n) ==
    [sockets |-> n, params |-> TRUE, recorded |-> FALSE, created |-> <<>>,
     start |-> "unfired", stop |-> "unfired", stopBy |-> None,
     refused |-> FALSE, calls |-> 0, closes |-> 0]

\* a datagram transport just created for a protocol of create_protocol()
NewDatagramTransport == [state |-> "open", made |-> FALSE, lost |-> FALSE]

\* EventHandler.fire_event of a one time event of the server: a fired event
\* stays as it is
dgram_fire(ds, event, outcome, by) ==
    IF event = "start"
    THEN IF ds.start = "unfired" THEN [ds EXCEPT !.start = outcome] ELSE ds
    ELSE IF ds.stop = "unfired"
         THEN [ds EXCEPT !.stop = outcome, !.stopBy = by]
         ELSE ds

\* the except clause of create_endpoint
create_endpoint_except(ds) ==
    dgram_fire(dgram_fire(ds, "start", "error", "create_endpoint"),
               "stop", "ok", "create_endpoint")

\* DatagramServer.create_endpoint; with sockets the transports are created
\* one by one, and the runtime raises for the socket number `fails` (0: for
\* none); without sockets the call of create_datagram_endpoint names
\* `adress`, which is bound nowhere: NameError is raised before the call
create_endpoint(ds, fails) ==
    IF ~ds.params THEN ds
    ELSE LET d0 == [ds EXCEPT !.params = FALSE]
         IN  IF ds.sockets > 0
             THEN IF fails = 0
                  THEN dgram_fire(
                          [d0 EXCEPT !.created = [k \in 1..ds.sockets |->
                                                     NewDatagramTransport],
                                     !.recorded = TRUE],
                          "start", "ok", "create_endpoint")
                  ELSE create_endpoint_except(
                          [d0 EXCEPT !.created = [k \in 1..(fails - 1) |->
                                                     NewDatagramTransport],
                                     !.refused = TRUE])
             ELSE create_endpoint_except(d0)

\* DatagramServer.close
dgram_close(ds) ==
    IF ds.recorded /\ ds.created # <<>>
    THEN dgram_fire(
            [ds EXCEPT !.recorded = FALSE,
                       !.created = [k \in DOMAIN ds.created |->
                                       IF ds.created[k].state = "open"
                                       THEN [ds.created[k] EXCEPT !.state = "closing"]
                                       ELSE ds.created[k]]],
            "stop", "ok", "close")
    ELSE ds

(* ------------------------------ TcpServer ------------------------------ *)

\* TcpServer._connection_made
server_connection_made(set, c, exc) == IF exc = None THEN set \cup {c} ELSE set

\* TcpServer._connection_lost
server_connection_lost(set, c) == set \ {c}

\* a close() coroutine just called; ghost: by (who called), passed (it found
\* _server set), waits (the connections whose 'connection_lost' it collected)
NewTask(by) == [pc |-> "called", by |-> by, passed |-> FALSE, waits |-> {}]

\* faulty variant of ReachedMax: the limit is compared with > instead of >=
ReachedMaxStrict(session) ==
    serving /\ max_connections # 0 /\ session > max_connections

\* the test of TcpServer.create_protocol that calls close()
ReachedMax(session) ==
    serving /\ max_connections # 0 /\ session >= max_connections

Ctx(c) == [cn |-> conns[c], rp |-> requests_processed, hooks |-> hooks]

Put(c, x) ==
    /\ conns' = [conns EXCEPT ![c] = x.cn]
    /\ requests_processed' = x.rp

AppCalls(by) == Cardinality({t \in DOMAIN tasks : tasks[t].by = by})

\* TcpServer.__init__
ServerInit ==
    /\ params = TRUE
    /\ serving = FALSE
    /\ listening = FALSE
    /\ startPc = "idle"
    /\ startEvent = "unfired"
    /\ stopFired = 0
    /\ sessions = 0
    /\ requests_processed = 0
    /\ concurrent = {}
    /\ max_connections \in {0, MaxMaxConnections}
    /\ keep_alive \in KeepAlives
    /\ tasks = <<>>
    /\ detached = [consumers |-> <<>>, errors |-> {}]
    /\ conns = <<>>

Init ==
    /\ ServerInit
    /\ starts = [calls |-> 0, binds |-> 0, fires |-> 0]
    /\ hooks = {}
    /\ pubsub = NewPubSub
    /\ dgram = NewDatagramServer(0)

\* TcpServer.start_serving is called: the coroutine takes _params
\* ghost: starts counts the start_serving calls, the create_server calls made
\* for them and the fire_event('start') calls
StartServingCall ==
    /\ params
    /\ startPc = "idle"
    /\ params' = FALSE
    /\ startPc' = "binding"
    /\ starts' = [starts EXCEPT !.calls = @ + 1, !.binds = @ + 1]
    /\ UNCHANGED <<serving, listening, startEvent, stopFired, sessions,
                   requests_processed, concurrent, max_connections, keep_alive, detached,
                   tasks, conns,
                   pubsub, dgram, hooks>>

\* create_server returns (the sockets accept from now on) or raises
StartServingBind(ok) ==
    /\ startPc = "binding"
    /\ IF ok
       THEN /\ listening' = TRUE
            /\ startPc' = "bound"
            /\ UNCHANGED <<startEvent, starts>>
       ELSE /\ startEvent' = "error"
            /\ startPc' = "done"
            /\ starts' = [starts EXCEPT !.fires = @ + 1]
            /\ UNCHANGED listening
    /\ UNCHANGED <<params, serving, stopFired, sessions, requests_processed,
                   concurrent, max_connections, keep_alive, detached, tasks, conns,
                   pubsub, dgram, hooks>>

\* faulty variant of StartServingFinish: 'start' is fired before the handle is
\* recorded, and the handle is recorded by a later step
StartServingFinishEarly ==
    /\ startPc \in {"bound", "fired"}
    /\ IF startPc = "bound"
       THEN /\ startEvent' = "ok"
            /\ startPc' = "fired"
            /\ starts' = [starts EXCEPT !.fires = @ + 1]
            /\ UNCHANGED serving
       ELSE /\ serving' = TRUE
            /\ startPc' = "done"
            /\ UNCHANGED <<startEvent, starts>>
    /\ UNCHANGED <<params, listening, stopFired, sessions, requests_processed,
                   concurrent, max_connections, keep_alive, detached, tasks, conns,
                   pubsub, dgram, hooks>>

\* start_serving after its yield: records _server and fires 'start'
StartServingFinish ==
    /\ startPc = "bound"
    /\ serving' = TRUE
    /\ startEvent' = "ok"
    /\ startPc' = "done"
    /\ starts' = [starts EXCEPT !.fires = @ + 1]
    /\ UNCHANGED <<params, listening, stopFired, sessions, requests_processed,
                   concurrent, max_connections, keep_alive, detached, tasks, conns,
                   pubsub, dgram, hooks>>

\* TcpServer.start_serving is called again: _params is gone
StartServingAgain ==
    /\ ~params
    /\ starts.calls < MaxStartCalls
    /\ starts' = [starts EXCEPT !.calls = @ + 1]
    /\ UNCHANGED <<params, serving, listening, startPc, startEvent, stopFired,
                   sessions, requests_processed, concurrent, max_connections,
                   keep_alive, tasks, detached, pubsub, dgram, conns, hooks>>

\* faulty variant of StopServing: the transports of the open connections are
\* closed with the listening handle
StopServingClosesAll ==
    /\ serving
    /\ serving' = FALSE
    /\ listening' = FALSE
    /\ conns' = [c \in DOMAIN conns |->
                    IF c \in concurrent THEN protocol_close(conns[c], "app")
                    ELSE conns[c]]
    /\ UNCHANGED <<params, startPc, startEvent, stopFired, sessions,
                   requests_processed, concurrent, max_connections, keep_alive, detached,
                   tasks, pubsub, dgram, starts, hooks>>

\* TcpServer.stop_serving
StopServing ==
    /\ serving
    /\ serving' = FALSE
    /\ listening' = FALSE
    /\ UNCHANGED <<params, startPc, startEvent, stopFired, sessions,
                   requests_processed, concurrent, max_connections, keep_alive, detached,
                   tasks, conns,
                   pubsub, dgram, starts, hooks>>

\* Producer.create_protocol: the session number of the next protocol
create_session(n) == n + 1

\* faulty variant of CreateProtocol: the new session number is not stored in _sessions
CreateProtocolStale ==
    /\ listening
    /\ Len(conns) < MaxSessions
    /\ LET session == create_session(sessions)
           shut    == ReachedMax(session)
           protocol == [NewConnection(session, keep_alive) EXCEPT !.shut = shut]
       IN  /\ conns' = Append(conns, protocol)
           /\ tasks' = IF shut THEN Append(tasks, NewTask("max")) ELSE tasks
    /\ UNCHANGED <<serverVars, sessions, requests_processed, concurrent>>

\* TcpServer.create_protocol, called by the runtime for an accepted socket
CreateProtocol ==
    /\ listening
    /\ Len(conns) < MaxSessions
    /\ LET session == create_session(sessions)
           shut    == ReachedMax(session)
           protocol == [NewConnection(session, keep_alive) EXCEPT !.shut = shut]
       IN  /\ sessions' = session
           /\ conns' = Append(conns, protocol)
           /\ tasks' = IF shut THEN Append(tasks, NewTask("max"))
                       ELSE tasks
    /\ UNCHANGED <<serverVars, requests_processed, concurrent>>

\* the application calls TcpServer.close()
CloseCall ==
    /\ AppCalls("app") < MaxCloseCalls
    /\ tasks' = Append(tasks, NewTask("app"))
    /\ UNCHANGED <<serverVars, sessions, requests_processed, concurrent, conns>>

\* faulty variant of CloseBegin: close() does not test _server
CloseBeginNoTest(t) ==
    /\ tasks[t].pc = "called"
    /\ serving' = FALSE
    /\ listening' = FALSE
    /\ tasks' = [tasks EXCEPT ![t].pc = "yield", ![t].passed = TRUE]
    /\ UNCHANGED <<params, startPc, startEvent, stopFired, sessions,
                   requests_processed, concurrent, max_connections, keep_alive, detached,
                   conns,
                   pubsub, dgram, starts, hooks>>

\* faulty variant of CloseBegin: _server is not reset to None
CloseBeginKeepsServer(t) ==
    /\ tasks[t].pc = "called"
    /\ IF serving
       THEN /\ listening' = FALSE
            /\ tasks' = [tasks EXCEPT ![t].pc = "yield", ![t].passed = TRUE]
            /\ UNCHANGED serving
       ELSE /\ tasks' = [tasks EXCEPT ![t].pc = "done"]
            /\ UNCHANGED <<serving, listening,
                   pubsub, dgram, starts>>
    /\ UNCHANGED <<params, startPc, startEvent, stopFired, sessions,
                   requests_processed, concurrent, max_connections, keep_alive, detached,
                   conns,
                   pubsub, dgram, starts, hooks>>

\* TcpServer.close up to its first yield, or to its end when _server is unset
CloseBegin(t) ==
    /\ tasks[t].pc = "called"
    /\ IF serving
       THEN /\ serving' = FALSE
            /\ listening' = FALSE
            /\ tasks' = [tasks EXCEPT ![t].pc = "yield", ![t].passed = TRUE]
       ELSE /\ tasks' = [tasks EXCEPT ![t].pc = "done"]
            /\ UNCHANGED <<serving, listening,
                   pubsub, dgram, starts>>
    /\ UNCHANGED <<params, startPc, startEvent, stopFired, sessions,
                   requests_processed, concurrent, max_connections, keep_alive, detached,
                   conns,
                   pubsub, dgram, starts, hooks>>

\* TcpServer._close_connections(), called by close() after `yield None`
CloseConnections(t) ==
    /\ tasks[t].pc = "yield"
    /\ tasks' = [tasks EXCEPT ![t].pc = "wait", ![t].waits = concurrent]
    /\ concurrent' = {}
    /\ conns' = [c \in DOMAIN conns |->
                    IF c \in concurrent THEN transport_close(conns[c], tasks[t].by)
                    ELSE conns[c]]
    /\ UNCHANGED <<serverVars, sessions, requests_processed>>

\* multi_async(all) is done once every collected 'connection_lost' has fired
AllLost(t) == \A c \in tasks[t].waits : conns[c].lost

\* TcpServer.close after its last yield: fires 'stop' and returns
CloseFinish(t) ==
    /\ tasks[t].pc = "wait"
    /\ AllLost(t)
    /\ stopFired' = stopFired + 1
    /\ tasks' = [tasks EXCEPT ![t].pc = "done"]
    /\ UNCHANGED <<params, serving, listening, startPc, startEvent, sessions,
                   requests_processed, concurrent, max_connections, keep_alive, detached,
                   conns,
                   pubsub, dgram, starts, hooks>>

\* the transport calls connection_made(transport)
ConnectionMade(c) ==
    /\ conns[c].transport = "none"
    /\ LET c1 == connection_made(conns[c])
       IN  /\ conns' = [conns EXCEPT ![c] = _add_idle_timeout(c1)]
           /\ concurrent' = IF conns[c].made THEN concurrent
                            ELSE server_connection_made(concurrent, c, None)
    /\ UNCHANGED <<serverVars, sessions, requests_processed, tasks>>

\* the transport calls Connection.data_received(data)
DataReceived(c, data) ==
    /\ conns[c].transport = "open"
    /\ conns[c].fed < MaxChunks
    /\ LET x == connection_data_received(
                    [Ctx(c) EXCEPT !.cn.fed = @ + 1], data)
       IN  /\ Len(x.cn.consumers) <= MaxConsumers
           /\ Put(c, x)
    /\ UNCHANGED <<serverVars, sessions, concurrent, tasks>>

\* no consumer of cn has fired an event: nothing was read from the transport
\* or written to it
Quiet(cn) == \A k \in DOMAIN cn.log : cn.log[k][2] = 0

\* the transport calls connection_lost(exc): the peer is gone (with or
\* without an error) or the transport has finished closing; a transport
\* closed with nothing left to write reports no error
ConnectionLost(c, exc) ==
    /\ conns[c].transport \in {"open", "closing"}
    /\ conns[c].transport = "closing" /\ Quiet(conns[c]) => exc = None
    /\ LET x == connection_lost([Ctx(c) EXCEPT !.cn.transport = "closed",
                                               !.cn.lostCalls = @ + 1], exc)
       IN  /\ Len(x.cn.consumers) <= MaxConsumers
           /\ Put(c, x)
           /\ concurrent' = IF conns[c].lost THEN concurrent
                            ELSE server_connection_lost(concurrent, c)
    /\ UNCHANGED <<serverVars, sessions, tasks>>

\* the loop runs an idle callback of a connection
TimerFire(c) ==
    /\ conns[c].pending > 0
    /\ conns' = [conns EXCEPT ![c] = _timed_out(@)]
    /\ UNCHANGED <<serverVars, sessions, requests_processed, concurrent, tasks>>

\* The application uses a connection until it has observed connection_lost.
\* the application calls finished(exc) (or connection_lost(exc)) on a consumer
AppFinished(c, i, exc) ==
    /\ conns[c].app < MaxAppCalls
    /\ ~conns[c].lost
    /\ LET x == finished([Ctx(c) EXCEPT !.cn.app = @ + 1], i, exc)
       IN  /\ Len(x.cn.consumers) <= MaxConsumers
           /\ Put(c, x)
    /\ UNCHANGED <<serverVars, sessions, concurrent, tasks>>

\* the application calls Connection.current_consumer()
AppCurrentConsumer(c) ==
    /\ conns[c].app < MaxAppCalls
    /\ ~conns[c].lost
    /\ LET x == current_consumer([Ctx(c) EXCEPT !.cn.app = @ + 1])
       IN  /\ Len(x.cn.consumers) <= MaxConsumers
           /\ Put(c, x)
    /\ UNCHANGED <<serverVars, sessions, concurrent, tasks>>

\* the application asks for the consumer of an empty slot with
\* Connection.current_consumer(); the consumers bound the calls
AppBuild(c) ==
    /\ conns[c].current = 0
    /\ ~conns[c].lost
    /\ LET x == current_consumer(Ctx(c))
       IN  /\ Len(x.cn.consumers) <= MaxConsumers
           /\ Put(c, x)
    /\ UNCHANGED <<serverVars, sessions, concurrent, tasks>>

\* the application calls Connection.upgrade(new_factory)
AppUpgrade(c) ==
    /\ conns[c].app < MaxAppCalls
    /\ ~conns[c].lost
    /\ LET x == upgrade([Ctx(c) EXCEPT !.cn.app = @ + 1], 2)
       IN  /\ Len(x.cn.consumers) <= MaxConsumers
           /\ Put(c, x)
    /\ UNCHANGED <<serverVars, sessions, concurrent, tasks>>

\* the application calls start(request) on the current consumer
AppStart(c, raises) ==
    /\ conns[c].app < MaxAppCalls
    /\ ~conns[c].lost
    /\ conns[c].current # 0
    /\ ~StartRaises(Ctx(c), conns[c].current)
    /\ LET x == start([Ctx(c) EXCEPT !.cn.app = @ + 1], conns[c].current,
                      "request", raises)
       IN  /\ Len(x.cn.consumers) <= MaxConsumers
           /\ Put(c, x)
    /\ UNCHANGED <<serverVars, sessions, concurrent, tasks>>

\* the application sends a request on a connection: it takes the consumer
\* of the connection with current_consumer() and calls start(request) on it
AppRequest(c, raises) ==
    /\ conns[c].app < MaxAppCalls
    /\ ~conns[c].lost
    /\ LET x1 == current_consumer([Ctx(c) EXCEPT !.cn.app = @ + 1])
           x  == consumer_start(x1, x1.cn.current, "request", raises)
       IN  /\ Len(x.cn.consumers) <= MaxConsumers
           /\ Put(c, x)
    /\ UNCHANGED <<serverVars, sessions, concurrent, tasks>>

\* Connection.data_received is called with zero bytes
DataReceivedEmpty(c) ==
    /\ conns[c].fed < MaxChunks
    /\ Put(c, connection_data_received([Ctx(c) EXCEPT !.cn.fed = @ + 1], <<>>))
    /\ UNCHANGED <<serverVars, sessions, concurrent, tasks>>

\* Connection.data_received is called after connection_lost
DataReceivedLate(c, data) ==
    /\ conns[c].lost
    /\ conns[c].fed < MaxChunks
    /\ LET x == connection_data_received(
                    [Ctx(c) EXCEPT !.cn.fed = @ + 1], data)
       IN  /\ Len(x.cn.consumers) <= MaxConsumers
           /\ Put(c, x)
    /\ UNCHANGED <<serverVars, sessions, concurrent, tasks>>

\* connection_lost(exc) is called again on a protocol that has lost its
\* connection
ConnectionLostAgain(c, exc) ==
    /\ conns[c].lost
    /\ conns[c].app < MaxAppCalls
    /\ Put(c, connection_lost([Ctx(c) EXCEPT !.cn.app = @ + 1,
                                             !.cn.lostCalls = @ + 1], exc))
    /\ UNCHANGED <<serverVars, sessions, concurrent, tasks>>

\* connection_made(transport) is called again, with a new transport, on a
\* protocol that has one (the transport is replaced under the protocol)
ConnectionMadeAgain(c) ==
    /\ conns[c].transport \in {"open", "closing"}
    /\ conns[c].app < MaxAppCalls
    /\ ~conns[c].lost
    /\ LET c1 == connection_made([conns[c] EXCEPT !.app = @ + 1])
       IN  conns' = [conns EXCEPT ![c] = _add_idle_timeout(c1)]
    /\ UNCHANGED <<serverVars, sessions, requests_processed, concurrent, tasks>>

\* the application calls set_timeout(timeout), at any time
AppSetTimeout(c, timeout) ==
    /\ conns[c].app < MaxAppCalls
    /\ conns' = [conns EXCEPT ![c] =
                    set_timeout([@ EXCEPT !.app = @ + 1,
                                          !.sets = Append(@, <<timeout, conns[c].lost>>)],
                                timeout)]
    /\ UNCHANGED <<serverVars, sessions, requests_processed, concurrent, tasks>>

\* the application calls start(request) on a consumer of a connection, at
\* any time; `raises` tells whether the consumer's start_request() raises
AppStartCall(c, i, request, raises) ==
    /\ conns[c].app < MaxAppCalls
    /\ LET x == consumer_start([Ctx(c) EXCEPT !.cn.app = @ + 1], i, request,
                               raises)
       IN  /\ Len(x.cn.consumers) <= MaxConsumers
           /\ Put(c, x)
    /\ UNCHANGED <<serverVars, sessions, concurrent, tasks>>

\* the application calls Producer.build_consumer and keeps the consumer
DetachedBuild ==
    /\ Len(detached.consumers) < MaxDetached
    /\ detached' = [detached EXCEPT !.consumers = Append(@, build_consumer(hooks, 1))]
    /\ UNCHANGED <<params, serving, listening, startPc, startEvent, stopFired,
                   sessions, requests_processed, concurrent, max_connections,
                   keep_alive, tasks, conns,
                   pubsub, dgram, starts, hooks>>

\* the application calls start(request) on a consumer without connection
\* ghost: errors records the consumers that raised, with their RuntimeError
DetachedStart(d, request) ==
    /\ \A e \in detached.errors : e[1] # d
    /\ LET e == StartError(detached.consumers[d], FALSE, "none")
       IN  detached' = IF e # None
                       THEN [detached EXCEPT !.errors = @ \cup {<<d, e>>}]
                       ELSE [detached EXCEPT !.consumers[d].started = TRUE]
    /\ UNCHANGED <<params, serving, listening, startPc, startEvent, stopFired,
                   sessions, requests_processed, concurrent, max_connections,
                   keep_alive, tasks, conns,
                   pubsub, dgram, starts, hooks>>

\* the application calls Connection.close()
AppClose(c) ==
    /\ conns' = [conns EXCEPT ![c] = protocol_close(@, "app")]
    /\ UNCHANGED <<serverVars, sessions, requests_processed, concurrent, tasks>>

\* the application calls Connection.close() on a connection whose transport
\* has been closed, once for a connection
AppCloseAgain(c) ==
    /\ conns[c].transport \in {"closing", "closed"}
    /\ conns[c].app = 0
    /\ conns' = [conns EXCEPT ![c] = protocol_close([@ EXCEPT !.app = @ + 1], "app")]
    /\ UNCHANGED <<serverVars, sessions, requests_processed, concurrent, tasks>>

\* the application calls PubSub.add_client(client)
AddClient(client) ==
    /\ pubsub' = [pubsub EXCEPT
                     !.clients = add_client(@, client),
                     !.call = [name |-> "add", client |-> client,
                               before |-> pubsub.clients, fresh |-> TRUE]]
    /\ UNCHANGED <<params, serving, listening, startPc, startEvent, stopFired,
                   sessions, requests_processed, concurrent, max_connections,
                   keep_alive, tasks, detached, dgram, starts, conns, hooks>>

\* the application calls PubSub.remove_client(client)
RemoveClient(client) ==
    /\ pubsub' = [pubsub EXCEPT
                     !.clients = remove_client(@, client),
                     !.call = [name |-> "remove", client |-> client,
                               before |-> pubsub.clients, fresh |-> TRUE]]
    /\ UNCHANGED <<params, serving, listening, startPc, startEvent, stopFired,
                   sessions, requests_processed, concurrent, max_connections,
                   keep_alive, tasks, detached, dgram, starts, conns, hooks>>

\* a message arrives and the store calls PubSub.broadcast
Broadcast(order, does) ==
    /\ pubsub.sent < MaxMessages
    /\ order \in Orders(pubsub.clients)
    /\ pubsub' = broadcast(pubsub, pubsub.sent + 1, order, does)
    /\ UNCHANGED <<params, serving, listening, startPc, startEvent, stopFired,
                   sessions, requests_processed, concurrent, max_connections,
                   keep_alive, tasks, detached, dgram, starts, conns, hooks>>


\* the application calls DatagramServer.create_endpoint()
CreateEndpoint(fails) ==
    /\ dgram.calls < MaxEndpointCalls
    /\ dgram' = create_endpoint([dgram EXCEPT !.calls = @ + 1], fails)
    /\ UNCHANGED <<params, serving, listening, startPc, startEvent, stopFired,
                   sessions, requests_processed, concurrent, max_connections,
                   keep_alive, tasks, detached, pubsub, starts, conns, hooks>>

\* the application calls DatagramServer.close()
DatagramClose ==
    /\ dgram.closes < MaxEndpointCalls
    /\ dgram' = dgram_close([dgram EXCEPT !.closes = @ + 1])
    /\ UNCHANGED <<params, serving, listening, startPc, startEvent, stopFired,
                   sessions, requests_processed, concurrent, max_connections,
                   keep_alive, tasks, detached, pubsub, starts, conns, hooks>>

\* a datagram transport calls connection_made on its protocol
DatagramConnectionMade(k) ==
    /\ ~dgram.created[k].made
    /\ dgram' = [dgram EXCEPT !.created[k].made = TRUE]
    /\ UNCHANGED <<params, serving, listening, startPc, startEvent, stopFired,
                   sessions, requests_processed, concurrent, max_connections,
                   keep_alive, tasks, detached, pubsub, starts, conns, hooks>>

\* a datagram transport that was closed calls connection_lost on its protocol
DatagramConnectionLost(k) ==
    /\ dgram.created[k].state = "closing"
    /\ dgram.created[k].made
    /\ dgram' = [dgram EXCEPT !.created[k].state = "closed",
                              !.created[k].lost = TRUE]
    /\ UNCHANGED <<params, serving, listening, startPc, startEvent, stopFired,
                   sessions, requests_processed, concurrent, max_connections,
                   keep_alive, tasks, detached, pubsub, starts, conns, hooks>>

\* the application binds a listener to a many times event of the server
BindHook(event) ==
    /\ event \notin hooks
    /\ hooks' = hooks \cup {event}
    /\ UNCHANGED <<params, serving, listening, startPc, startEvent, stopFired,
                   sessions, requests_processed, concurrent, max_connections,
                   keep_alive, tasks, detached, pubsub, dgram, starts, conns>>

(* --------------------------- specifications ---------------------------- *)

\* The server and the life cycle of the connections it accepts.
Next ==
    \/ StartServingCall
    \/ \E ok \in BOOLEAN : StartServingBind(ok)
    \/ StartServingFinish
    \/ StopServing
    \/ CreateProtocol
    \/ CloseCall
    \/ \E t \in DOMAIN tasks : CloseBegin(t)
    \/ \E t \in DOMAIN tasks : CloseConnections(t)
    \/ \E t \in DOMAIN tasks : CloseFinish(t)
    \/ \E c \in DOMAIN conns : ConnectionMade(c)
    \/ \E c \in DOMAIN conns, exc \in Excs : ConnectionLost(c, exc)
    \/ \E c \in DOMAIN conns : TimerFire(c)

Spec == Init /\ [][Next]_vars

\* The loop runs a timer callback that is due, and a transport that is
\* closing ends by calling connection_lost.
Fairness ==
    \A c \in 1..MaxSessions :
        /\ WF_vars(c \in DOMAIN conns /\ TimerFire(c))
        /\ WF_vars(/\ c \in DOMAIN conns
                   /\ conns[c].transport = "closing"
                   /\ \E exc \in Excs : ConnectionLost(c, exc))

LiveSpec == Spec /\ Fairness

\* A server without keep_alive and its connections, with the close() calls
\* the application makes on the server and on the connections.
CloseInit == Init /\ keep_alive = 0

CloseNext ==
    \/ StartServingCall
    \/ \E ok \in BOOLEAN : StartServingBind(ok)
    \/ StartServingFinish
    \/ StopServing
    \/ CreateProtocol
    \/ CloseCall
    \/ \E t \in DOMAIN tasks : CloseBegin(t)
    \/ \E t \in DOMAIN tasks : CloseConnections(t)
    \/ \E t \in DOMAIN tasks : CloseFinish(t)
    \/ \E c \in DOMAIN conns : ConnectionMade(c)
    \/ \E c \in DOMAIN conns, exc \in Excs : ConnectionLost(c, exc)
    \/ \E c \in DOMAIN conns : AppClose(c)
    \/ \E c \in DOMAIN conns : AppCloseAgain(c)

CloseSpec == CloseInit /\ [][CloseNext]_vars

\* One connection accepted by a serving server without max_connections, with
\* the data it receives and the calls the application makes on it.
ConnInit == Init /\ max_connections = 0

ConnNext ==
    \/ StartServingCall
    \/ \E ok \in BOOLEAN : StartServingBind(ok)
    \/ StartServingFinish
    \/ (conns = <<>> /\ serving /\ CreateProtocol)
    \/ \E c \in DOMAIN conns : ConnectionMade(c)
    \/ \E c \in DOMAIN conns, data \in Chunks : DataReceived(c, data)
    \/ \E c \in DOMAIN conns, exc \in Excs : ConnectionLost(c, exc)
    \/ \E c \in DOMAIN conns : TimerFire(c)
    \/ \E c \in DOMAIN conns, exc \in Excs :
          \E i \in DOMAIN conns[c].consumers : AppFinished(c, i, exc)
    \/ \E c \in DOMAIN conns : AppCurrentConsumer(c)
    \/ \E c \in DOMAIN conns : AppUpgrade(c)
    \/ \E c \in DOMAIN conns, raises \in BOOLEAN : AppStart(c, raises)
    \/ \E c \in DOMAIN conns : AppClose(c)

ConnSpec == ConnInit /\ [][ConnNext]_vars

\* One connection without idle timeout, its data and the consumers the
\* application builds, upgrades and finishes.
UpgradeInit == ConnInit /\ keep_alive = 0

UpgradeNext ==
    \/ StartServingCall
    \/ \E ok \in BOOLEAN : StartServingBind(ok)
    \/ StartServingFinish
    \/ (conns = <<>> /\ serving /\ CreateProtocol)
    \/ \E c \in DOMAIN conns : ConnectionMade(c)
    \/ \E c \in DOMAIN conns, data \in Chunks : DataReceived(c, data)
    \/ \E c \in DOMAIN conns, exc \in Excs : ConnectionLost(c, exc)
    \/ \E c \in DOMAIN conns, exc \in Excs :
          \E i \in DOMAIN conns[c].consumers : AppFinished(c, i, exc)
    \/ \E c \in DOMAIN conns : AppBuild(c)
    \/ \E c \in DOMAIN conns : AppUpgrade(c)

UpgradeSpec == UpgradeInit /\ [][UpgradeNext]_vars

\* One connection without idle timeout, fed byte by byte and lost without
\* error, and the start() calls an application makes at any time on its
\* consumers; before it, the start() calls on consumers without connection.
StartNext ==
    \/ StartServingCall
    \/ \E ok \in BOOLEAN : StartServingBind(ok)
    \/ StartServingFinish
    \/ (conns = <<>> /\ serving /\ CreateProtocol)
    \/ \E c \in DOMAIN conns : ConnectionMade(c)
    \/ \E c \in DOMAIN conns, data \in ByteChunks : DataReceived(c, data)
    \/ \E c \in DOMAIN conns : ConnectionLost(c, None)
    \/ \E c \in DOMAIN conns :
          \E i \in DOMAIN conns[c].consumers : AppFinished(c, i, None)
    \/ \E c \in DOMAIN conns : AppBuild(c)
    \/ \E c \in DOMAIN conns, request \in {None, "request"}, raises \in BOOLEAN :
          \E i \in DOMAIN conns[c].consumers : AppStartCall(c, i, request, raises)
    \/ \E c \in DOMAIN conns : AppClose(c)
    \/ (conns = <<>> /\ DetachedBuild)
    \/ \E d \in DOMAIN detached.consumers, request \in {None, "request"} :
          (conns = <<>> /\ DetachedStart(d, request))

StartSpec == UpgradeInit /\ [][StartNext]_vars

\* One connection and its idle timer: the callbacks of the transport and of
\* the loop, and the calls an application can make at any time.
TimerNext ==
    \/ StartServingCall
    \/ \E ok \in BOOLEAN : StartServingBind(ok)
    \/ StartServingFinish
    \/ (conns = <<>> /\ serving /\ CreateProtocol)
    \/ \E c \in DOMAIN conns : ConnectionMade(c)
    \/ \E c \in DOMAIN conns : ConnectionMadeAgain(c)
    \/ \E c \in DOMAIN conns, data \in Chunks : DataReceived(c, data)
    \/ \E c \in DOMAIN conns : DataReceivedEmpty(c)
    \/ \E c \in DOMAIN conns, data \in Chunks : DataReceivedLate(c, data)
    \/ \E c \in DOMAIN conns, exc \in Excs : ConnectionLost(c, exc)
    \/ \E c \in DOMAIN conns, exc \in Excs : ConnectionLostAgain(c, exc)
    \/ \E c \in DOMAIN conns : TimerFire(c)
    \/ \E c \in DOMAIN conns, timeout \in Timeouts : AppSetTimeout(c, timeout)
    \/ \E c \in DOMAIN conns : AppClose(c)

TimerSpec == ConnInit /\ [][TimerNext]_vars

\* A PubSub handler, the clients an application registers and removes
\* between messages, and clients that return or raise when invoked.
PubSubNext ==
    \/ \E client \in Clients : AddClient(client)
    \/ \E client \in Clients : RemoveClient(client)
    \/ \E order \in Orders(pubsub.clients) :
          \E does \in [pubsub.clients -> Returns \cup Raises] : Broadcast(order, does)

PubSubSpec == UpgradeInit /\ [][PubSubNext]_vars

\* A PubSub handler whose clients call add_client and remove_client while
\* they are invoked.
ReentrantNext ==
    \/ \E client \in Clients : AddClient(client)
    \/ \E client \in Clients : RemoveClient(client)
    \/ \E order \in Orders(pubsub.clients) :
          \E does \in [pubsub.clients -> Returns \cup Changes] : Broadcast(order, does)

ReentrantSpec == UpgradeInit /\ [][ReentrantNext]_vars

\* A server without limits, the start_serving and stop_serving calls made
\* on it, and the connections it accepts, fed byte by byte until the server
\* has handled MaxRequests requests.
ServeNext ==
    \/ StartServingCall
    \/ \E ok \in BOOLEAN : StartServingBind(ok)
    \/ StartServingFinish
    \/ StartServingAgain
    \/ StopServing
    \/ CreateProtocol
    \/ \E c \in DOMAIN conns : ConnectionMade(c)
    \/ \E c \in DOMAIN conns, data \in ByteChunks :
          (requests_processed < MaxRequests /\ DataReceived(c, data))
    \/ \E c \in DOMAIN conns, exc \in Excs : ConnectionLost(c, exc)

ServeSpec == UpgradeInit /\ [][ServeNext]_vars

\* A server and the requests of its connections: those a first chunk starts
\* and those the application starts on a connection that is made.
AccountNext ==
    \/ StartServingCall
    \/ \E ok \in BOOLEAN : StartServingBind(ok)
    \/ StartServingFinish
    \/ CreateProtocol
    \/ \E c \in DOMAIN conns : ConnectionMade(c)
    \/ \E c \in DOMAIN conns, data \in ByteChunks :
          (requests_processed < MaxRequests /\ DataReceived(c, data))
    \/ \E c \in DOMAIN conns : ConnectionLost(c, None)
    \/ \E c \in DOMAIN conns :
          (requests_processed < MaxRequests /\ conns[c].made /\ AppRequest(c, FALSE))

AccountSpec == UpgradeInit /\ [][AccountNext]_vars

\* A DatagramServer given an address or pre-created sockets, the
\* create_endpoint and close calls made on it and its transports.
DatagramInit ==
    /\ ServerInit
    /\ max_connections = 0
    /\ keep_alive = 0
    /\ starts = [calls |-> 0, binds |-> 0, fires |-> 0]
    /\ hooks = {}
    /\ pubsub = NewPubSub
    /\ dgram \in {NewDatagramServer(n) : n \in 0..MaxSockets}

DatagramNext ==
    \/ \E fails \in 0..dgram.sockets : CreateEndpoint(fails)
    \/ DatagramClose
    \/ \E k \in DOMAIN dgram.created : DatagramConnectionMade(k)
    \/ \E k \in DOMAIN dgram.created : DatagramConnectionLost(k)

DatagramSpec == DatagramInit /\ [][DatagramNext]_vars

\* A server, the listeners an application binds to its pre_request and
\* post_request events, and one connection with its consumers.
HookNext ==
    \/ StartServingCall
    \/ \E ok \in BOOLEAN : StartServingBind(ok)
    \/ StartServingFinish
    \/ \E event \in ConsumerEvents : BindHook(event)
    \/ (conns = <<>> /\ serving /\ CreateProtocol)
    \/ \E c \in DOMAIN conns : ConnectionMade(c)
    \/ \E c \in DOMAIN conns, data \in Chunks : DataReceived(c, data)
    \/ \E c \in DOMAIN conns, exc \in Excs : ConnectionLost(c, exc)
    \/ \E c \in DOMAIN conns : AppBuild(c)
    \/ \E c \in DOMAIN conns :
          \E i \in DOMAIN conns[c].consumers : AppFinished(c, i, None)

HookSpec == UpgradeInit /\ [][HookNext]_vars

(* ------------------------------- claims ------------------------------- *)

\* positions of the event <<ev, i>> in a log
Idx(log, ev, i) == {k \in DOMAIN log : log[k] = <<ev, i>>}

\* positions of the events named ev, of any consumer
IdxAny(log, ev) == {k \in DOMAIN log : log[k][1] = ev}

\* C1: every consumer attached to a connection fires post_request at most
\* once, and once the connection is lost every consumer attached to it has
\* fired post_request.
C1_PostRequestExactlyOnce ==
    \A c \in DOMAIN conns : \A i \in DOMAIN conns[c].consumers :
        /\ Cardinality(Idx(conns[c].log, "post_request", i)) <= 1
        /\ conns[c].lost => conns[c].consumers[i].post

\* C2: for one consumer, pre_request precedes every data_received and
\* data_processed event, and each of these precedes post_request.
C2_ConsumerEventOrder ==
    \A c \in DOMAIN conns : \A i \in DOMAIN conns[c].consumers :
        LET log  == conns[c].log
            data == Idx(log, "data_received", i) \cup Idx(log, "data_processed", i)
        IN  /\ \A d \in data : \E p \in Idx(log, "pre_request", i) : p < d
            /\ \A d \in data : \A q \in Idx(log, "post_request", i) : d < q

\* C2 amended: pre_request precedes every data event of the consumer; when
\* post_request fires on a consumer that has been started, every
\* data_received event precedes it, and so does every data_processed event
\* but the one of the chunk whose handling called finished(), which follows
\* post_request at once.
C2_ConsumerEventOrderAmended ==
    \A c \in DOMAIN conns : \A i \in DOMAIN conns[c].consumers :
        LET log  == conns[c].log
            data == Idx(log, "data_received", i) \cup Idx(log, "data_processed", i)
        IN  /\ \A d \in data : \E p \in Idx(log, "pre_request", i) : p < d
            /\ \A q \in Idx(log, "post_request", i) :
                  (\E p \in Idx(log, "pre_request", i) : p < q) =>
                     /\ \A d \in Idx(log, "data_received", i) : d < q
                     /\ \A d \in Idx(log, "data_processed", i) :
                           d > q => d = q + 1 /\ log[q - 1] = <<"data_received", i>>

\* C2 witness: a consumer called finished() while handling a chunk
C2_Witness ==
    \E c \in DOMAIN conns : \E i \in DOMAIN conns[c].consumers :
        \E q \in Idx(conns[c].log, "post_request", i) :
            /\ q > 1 /\ q < Len(conns[c].log)
            /\ conns[c].log[q - 1] = <<"data_received", i>>
            /\ conns[c].log[q + 1] = <<"data_processed", i>>

\* C3: connection_made precedes every data_received of the connection, and
\* connection_lost is the last event of the connection and of its consumers.
C3_ConnectionEventOrder ==
    \A c \in DOMAIN conns :
        LET log == conns[c].log
        IN  /\ \A d \in IdxAny(log, "data_received") :
                  \E m \in Idx(log, "connection_made", 0) : m < d
            /\ \A l \in Idx(log, "connection_lost", 0) : l = Len(log)

\* C3 amended: connection_made precedes every data_received of the
\* connection; no pre_request, data_received or data_processed event follows
\* connection_lost; the one event that can follow it is the post_request of
\* the consumer that is current when the connection is lost, fired by the
\* listener of connection_lost.
C3_ConnectionEventOrderAmended ==
    \A c \in DOMAIN conns :
        LET log == conns[c].log
        IN  /\ \A d \in IdxAny(log, "data_received") :
                  \E m \in Idx(log, "connection_made", 0) : m < d
            /\ \A l \in Idx(log, "connection_lost", 0) :
                  /\ Len(log) <= l + 1
                  /\ Len(log) = l + 1 => log[l + 1][1] = "post_request"

\* C3 witness: a connection that received data was lost while a consumer was
\* active
C3_Witness ==
    \E c \in DOMAIN conns :
        LET log == conns[c].log
        IN  /\ Len(log) >= 4
            /\ log[1] = <<"connection_made", 0>>
            /\ IdxAny(log, "data_received") # {}
            /\ log[Len(log) - 1] = <<"connection_lost", 0>>
            /\ log[Len(log)][1] = "post_request"

\* a step in which the close() coroutine t returns
Resolves(t) == tasks[t].pc # "done" /\ tasks'[t].pc = "done"

\* C4: whenever a close() call resolves, the open-connection set is empty and
\* stop has fired.
C4_CloseResolved ==
    [][\A t \in DOMAIN tasks :
          Resolves(t) => concurrent' = {} /\ stopFired' >= 1]_vars

\* C5: close() on a serving server closes the transport of every open
\* connection; it fires stop and resolves only when each of them has observed
\* connection_lost; stop is fired once.
C5_GracefulClose ==
    /\ \A c \in DOMAIN conns :
          conns[c].made /\ conns[c].transport = "open" => c \in concurrent
    /\ \A t \in DOMAIN tasks :
          /\ tasks[t].pc \in {"wait", "done"} =>
                \A c \in tasks[t].waits : conns[c].transport \in {"closing", "closed"}
          /\ tasks[t].pc = "done" /\ tasks[t].passed =>
                /\ \A c \in tasks[t].waits : conns[c].lost
                /\ stopFired = 1
    /\ stopFired <= 1
    /\ stopFired = 1 => \E t \in DOMAIN tasks : tasks[t].pc = "done" /\ tasks[t].passed

\* C5 witness: close() has resolved after closing two open connections
C5_Witness ==
    \E t \in DOMAIN tasks :
        /\ tasks[t].pc = "done"
        /\ tasks[t].passed
        /\ Cardinality(tasks[t].waits) >= 2
        /\ stopFired = 1

C7_MaxLetsConnectionsDrain ==
    \A c \in DOMAIN conns : conns[c].closedBy # "max"

\* C8: the protocols created carry the sessions 1, 2, 3, ... in creation
\* order, and the sessions counter is the number of protocols created.
C8_Sessions ==
    /\ sessions = Len(conns)
    /\ \A c \in DOMAIN conns : conns[c].session = c

\* C8 witness: the producer has created every protocol the bound allows
C8_Witness == Len(conns) = MaxSessions /\ sessions >= 2

\* C9: the current-consumer slot never holds a consumer whose post_request
\* has fired.
C9_SlotNeverFinished ==
    \A c \in DOMAIN conns :
        conns[c].current # 0 => ~conns[c].consumers[conns[c].current].post

\* number of requests that end in data[1..k]
RECURSIVE Ends(_, _)
Ends(data, k) ==
    IF k = 0 THEN 0
    ELSE Ends(data, k - 1) + (IF data[k] = "n" THEN 1 ELSE 0)

\* the events of one request handled from start to end by consumer i
RequestLog(i) ==
    <<<<"pre_request", i>>, <<"data_received", i>>, <<"post_request", i>>,
      <<"data_processed", i>>>>

\* the events of the requests 1..k, handled by the consumer that holds the
\* slot (first, when there is one) and then by the consumers built after the
\* n consumers the connection has had
RECURSIVE PipelineLog(_, _, _)
PipelineLog(first, n, k) ==
    IF k = 0 THEN <<>>
    ELSE IF first # 0 THEN RequestLog(first) \o PipelineLog(0, n, k - 1)
    ELSE RequestLog(n + 1) \o PipelineLog(0, n + 1, k - 1)

\* the slot of cn is empty or holds a consumer that has seen no request yet
AtRequestBoundary(cn) ==
    \/ cn.current = 0
    \/ /\ ~cn.consumers[cn.current].started
       /\ ~cn.consumers[cn.current].post

C11_Upgrade ==
    \A c \in DOMAIN conns : \A k \in DOMAIN conns[c].ups :
        LET cn  == conns[c]
            A   == cn.ups[k][1]
            u   == cn.ups[k][2]
            new == cn.ups[k][3]
        IN  IF A = 0
            THEN new # 0 /\ cn.consumers[new].factory = 2
            ELSE \A d \in IdxAny(cn.log, "data_received") :
                    d > u =>
                       IF \E q \in Idx(cn.log, "post_request", A) : q < d
                       THEN cn.consumers[cn.log[d][2]].factory = 2
                       ELSE cn.log[d][2] = A

\* C12: Connection.data_received with zero bytes builds no consumer, starts
\* none, fires no event of the connection or of a consumer, and leaves the
\* current-consumer slot and the processed counts of the connection and of
\* the producer as they are.
C12_ZeroBytes ==
    [][\A c \in DOMAIN conns :
          DataReceivedEmpty(c) =>
             /\ conns'[c].consumers = conns[c].consumers
             /\ conns'[c].built = conns[c].built
             /\ conns'[c].log = conns[c].log
             /\ conns'[c].current = conns[c].current
             /\ conns'[c].processed = conns[c].processed
             /\ requests_processed' = requests_processed]_vars

\* C12 witness: an open connection took a zero-byte call and has no consumer
C12_Witness ==
    \E c \in DOMAIN conns :
        /\ conns[c].transport = "open"
        /\ conns[c].fed >= 1
        /\ conns[c].consumers = <<>>
        /\ conns[c].log = <<<<"connection_made", 0>>>>

\* C13: under fair scheduling of timers and transport callbacks, a connection
\* accepted with keep_alive > 0 that receives no data is eventually lost and
\* removed from the open-connection set; when nothing else ends it first its
\* idle timer closes the transport, and a connection closed by its idle timer
\* observes connection_lost(None).
C13_IdleClose ==
    /\ \A c \in 1..MaxSessions :
          (c \in DOMAIN conns /\ conns[c].made /\ conns[c].timeout > 0)
             ~> (c \in DOMAIN conns /\ conns[c].lost /\ c \notin concurrent)
    /\ [](\A c \in DOMAIN conns :
             /\ conns[c].lost /\ conns[c].closedBy = "timer" =>
                   conns[c].lostExc = None /\ c \notin concurrent
             /\ (conns[c].made /\ conns[c].timeout > 0 /\ conns[c].transport = "open")
                   => conns[c].pending = 1)

\* C13 witness: an idle connection was closed by its timer, lost without
\* error and removed from the set
C13_Witness ==
    \E c \in DOMAIN conns :
        /\ conns[c].timeout > 0
        /\ conns[c].closedBy = "timer"
        /\ conns[c].lost
        /\ conns[c].lostExc = None
        /\ c \notin concurrent

\* C14: a protocol never has more than one idle callback pending; a
\* set_timeout(t) call leaves exactly one pending when t > 0 and the
\* connection is open, and none otherwise.
C14_OneTimer ==
    [][\A c \in DOMAIN conns' :
          /\ conns'[c].pending <= 1
          /\ conns'[c].pending = 1 <=> conns'[c].timer = "armed"
          /\ c \in DOMAIN conns =>
                \A t \in Timeouts :
                   AppSetTimeout(c, t) =>
                      conns'[c].pending =
                         IF t > 0 /\ conns[c].transport = "open" THEN 1 ELSE 0]_vars

\* C14 witness: set_timeout(1); set_timeout(1) on an open connection left one
\* idle callback pending
C14_Witness ==
    \E c \in DOMAIN conns :
        /\ conns[c].transport = "open"
        /\ conns[c].sets = <<<<1, FALSE>>, <<1, FALSE>>>>
        /\ conns[c].pending = 1

C16_LostOnceNoTimer ==
    [][\A c \in DOMAIN conns' :
          /\ Cardinality(Idx(conns'[c].log, "connection_lost", 0)) <= 1
          /\ conns'[c].lost => conns'[c].pending = 0 /\ conns'[c].timer = "none"
          /\ c \in DOMAIN conns =>
                \A exc \in Excs :
                   ConnectionLostAgain(c, exc) =>
                      conns'[c] = [conns[c] EXCEPT !.app = @ + 1,
                                                   !.lostCalls = @ + 1]]_vars

\* C16 witness: after connection_lost the protocol got a second
\* connection_lost call, a set_timeout(1) call and data, and has no timer
C16_Witness ==
    \E c \in DOMAIN conns :
        LET log == conns[c].log
        IN  /\ conns[c].lost
            /\ conns[c].lostCalls = 2
            /\ conns[c].sets = <<<<1, TRUE>>>>
            /\ \E l \in Idx(log, "connection_lost", 0) :
                  \E d \in IdxAny(log, "data_received") : d > l
            /\ conns[c].pending = 0

\* C17: however many close() calls a TcpServer gets, from the application
\* or from the max_connections limit, one of them at most closes the
\* listening handle, no connection has its transport closed by two of them,
\* and stop fires at most once; close() on a Connection whose transport has
\* been closed changes nothing.
C17_CloseIdempotent ==
    [][/\ Cardinality({t \in DOMAIN tasks' : tasks'[t].passed}) <= 1
       /\ \A t1, t2 \in DOMAIN tasks' :
             t1 # t2 => tasks'[t1].waits \cap tasks'[t2].waits = {}
       /\ stopFired' <= 1
       /\ \A c \in DOMAIN conns :
             AppCloseAgain(c) => conns'[c] = [conns[c] EXCEPT !.app = @ + 1]]_vars

\* C17 witness: two close() calls have resolved, one of them closed the
\* connections and fired stop, and a closed connection was closed again
C17_Witness ==
    /\ \E t1, t2 \in DOMAIN tasks :
          /\ t1 # t2
          /\ tasks[t1].pc = "done" /\ tasks[t1].passed /\ tasks[t1].waits # {}
          /\ tasks[t2].pc = "done" /\ ~tasks[t2].passed
    /\ stopFired = 1
    /\ \E c \in DOMAIN conns :
          conns[c].transport = "closed" /\ conns[c].app >= 1

\* C18: start() on a consumer that has been started, by an earlier start()
\* call or by its first chunk, raises RuntimeError and changes nothing: the
\* connection (its processed count, its events, its consumers with their
\* post_request listeners) and the producer's requests_processed stay as they
\* are.
C18_StartTwice ==
    [][\A c \in DOMAIN conns : \A i \in DOMAIN conns[c].consumers :
          \A request \in {None, "request"}, raises \in BOOLEAN :
             (AppStartCall(c, i, request, raises) /\ conns[c].consumers[i].started)
                => /\ conns'[c] =
                         [conns[c] EXCEPT
                             !.app = @ + 1,
                             !.errors = Append(@, <<i, "Consumer already started">>)]
                   /\ requests_processed' = requests_processed]_vars

\* C18 witness: start() raised on a consumer started by its first chunk and
\* still in the slot, on an open connection
C18_Witness ==
    \E c \in DOMAIN conns : \E i \in DOMAIN conns[c].consumers :
        /\ conns[c].transport = "open"
        /\ conns[c].current = i
        /\ conns[c].consumers[i].count >= 1
        /\ conns[c].consumers[i].request = None
        /\ conns[c].errors = <<<<i, "Consumer already started">>>>
        /\ conns[c].processed = 1
        /\ Cardinality(Idx(conns[c].log, "pre_request", i)) = 1

\* C19: start() raises RuntimeError, fires no event and increments no counter
\* whenever the consumer has no connection or the transport of its connection
\* is not open (absent, closing or closed).
C19_StartNeedsOpenTransport ==
    [][/\ \A c \in DOMAIN conns : \A i \in DOMAIN conns[c].consumers :
             \A request \in {None, "request"}, raises \in BOOLEAN :
                (AppStartCall(c, i, request, raises) /\ conns[c].transport # "open")
                   => /\ Len(conns'[c].errors) = Len(conns[c].errors) + 1
                      /\ conns'[c].log = conns[c].log
                      /\ conns'[c].processed = conns[c].processed
                      /\ requests_processed' = requests_processed
       /\ \A d \in DOMAIN detached.consumers :
             DetachedStart(d, None) =>
                <<d, "No connection">> \in detached'.errors]_vars

\* C19 amended: start() raises RuntimeError, fires no event and increments no
\* counter when the consumer has no connection or its connection has no
\* transport yet; it does not test whether the transport is open: on a
\* connection whose transport is closing or closed, as on an open one, start()
\* of a consumer not yet started goes on, adds one to both processed counts
\* and fires pre_request.
C19_StartNeedsTransport ==
    [][/\ \A c \in DOMAIN conns : \A i \in DOMAIN conns[c].consumers :
             \A request \in {None, "request"}, raises \in BOOLEAN :
                (AppStartCall(c, i, request, raises) /\ ~conns[c].consumers[i].started)
                   => IF conns[c].transport = "none"
                      THEN /\ conns'[c] =
                                 [conns[c] EXCEPT
                                     !.app = @ + 1,
                                     !.errors = Append(@, <<i, "no transport">>)]
                           /\ requests_processed' = requests_processed
                      ELSE /\ conns'[c].errors = conns[c].errors
                           /\ conns'[c].processed = conns[c].processed + 1
                           /\ requests_processed' = requests_processed + 1
                           /\ Idx(conns[c].log, "pre_request", i) = {}
                           /\ Cardinality(Idx(conns'[c].log, "pre_request", i)) = 1
       /\ \A d \in DOMAIN detached.consumers :
             \A request \in {None, "request"} :
                DetachedStart(d, request) =>
                   /\ detached' = [detached EXCEPT
                                      !.errors = @ \cup {<<d, "No connection">>}]
                   /\ requests_processed' = requests_processed]_vars

\* C19 witness: start() raised on a consumer without connection and on one
\* whose connection had no transport, and went on, after connection_lost, on
\* a consumer of the closed connection
C19_Witness ==
    /\ detached.errors = {<<1, "No connection">>}
    /\ \E c \in DOMAIN conns :
          LET log == conns[c].log
          IN  /\ conns[c].transport = "closed"
              /\ \E i \in DOMAIN conns[c].consumers :
                    conns[c].errors = <<<<i, "no transport">>>>
              /\ \E l \in Idx(log, "connection_lost", 0) :
                    \E p \in IdxAny(log, "pre_request") : p > l
              /\ conns[c].processed = 1

\* C20: when start(request) goes past its tests and start_request() raises,
\* start() does not raise, pre_request has fired, post_request has fired once
\* and carries the error of start_request(), and the slot is cleared if it
\* held this consumer; start() without a request does not invoke
\* start_request(), so it fires no post_request.
C20_StartRequestError ==
    [][\A c \in DOMAIN conns : \A i \in DOMAIN conns[c].consumers :
          \A request \in {None, "request"} :
             (/\ AppStartCall(c, i, request, TRUE)
              /\ StartError(conns[c].consumers[i], TRUE, conns[c].transport) = None)
                => /\ conns'[c].errors = conns[c].errors
                   /\ Cardinality(Idx(conns'[c].log, "pre_request", i)) = 1
                   /\ IF request = None
                      THEN /\ conns'[c].consumers[i].post = conns[c].consumers[i].post
                           /\ Idx(conns'[c].log, "post_request", i) =
                                 Idx(conns[c].log, "post_request", i)
                      ELSE /\ Cardinality(Idx(conns'[c].log, "post_request", i)) = 1
                           /\ conns'[c].consumers[i].post
                           /\ conns'[c].consumers[i].postExc = "err"
                           /\ conns'[c].current =
                                 IF conns[c].current = i THEN 0
                                 ELSE conns[c].current]_vars

\* C21: when a connection is lost with error exc, the consumer that holds
\* the slot, unless it has finished before, fires post_request once with exc;
\* the consumers that finished earlier fire nothing and keep their outcome;
\* the server removes the connection from its open-connection set.
C21_TransportError ==
    [][\A c \in DOMAIN conns : \A exc \in Excs :
          (ConnectionLost(c, exc) /\ ~conns[c].lost) =>
             /\ c \notin concurrent'
             /\ conns'[c].lost /\ conns'[c].lostExc = exc
             /\ \A i \in DOMAIN conns[c].consumers :
                   IF i = conns[c].current /\ ~conns[c].consumers[i].post
                   THEN /\ conns'[c].consumers[i].post
                        /\ conns'[c].consumers[i].postExc = exc
                        /\ Cardinality(Idx(conns'[c].log, "post_request", i)) = 1
                   ELSE /\ conns'[c].consumers[i].post = conns[c].consumers[i].post
                        /\ conns'[c].consumers[i].postExc =
                              conns[c].consumers[i].postExc
                        /\ Idx(conns'[c].log, "post_request", i) =
                              Idx(conns[c].log, "post_request", i)]_vars

\* C21 witness: a connection that was in the set was lost with an error; its
\* first consumer had finished a request without error, its second one was
\* finished by the loss with the error
C21_Witness ==
    \E c \in DOMAIN conns :
        /\ conns[c].made /\ conns[c].lost /\ conns[c].lostExc = "err"
        /\ c \notin concurrent
        /\ Len(conns[c].consumers) = 2
        /\ conns[c].consumers[1].postExc = None /\ conns[c].consumers[1].post
        /\ conns[c].consumers[2].started
        /\ conns[c].consumers[2].post /\ conns[c].consumers[2].postExc = "err"
        /\ conns[c].log[Len(conns[c].log)] = <<"post_request", 2>>

\* C22: when a client calls add_client or remove_client while a broadcast
\* invokes it, the broadcast completes without raising, every client that was
\* registered when it began and is not removed is invoked once, and a client
\* added during the broadcast is not invoked for the message.
C22_BroadcastSnapshot ==
    LET last == pubsub.last
    IN  /\ last.error = None
        /\ \A c \in last.before \ last.removed : last.calls[c] = 1
        /\ \A c \in last.added \ last.before : last.calls[c] = 0

\* the messages 1..n in arrival order
RECURSIVE Arrived(_)
Arrived(n) == IF n = 0 THEN <<>> ELSE Append(Arrived(n - 1), n)

\* C23: a client that raises IOError or another Exception while a broadcast
\* invokes it is not in the registry when the broadcast returns, and the
\* exception does not leave broadcast; a client that returns stays registered;
\* every registered client is invoked once with the message and no other
\* client is invoked, so an evicted client that was not added again gets no
\* later message, and a client that has got every message so far and does
\* not raise has got every message, once and in arrival order, after it.
C23_Eviction ==
    [][pubsub'.sent # pubsub.sent =>
          /\ pubsub'.last.error = None
          /\ pubsub'.last.raisers \subseteq pubsub.clients
          /\ pubsub'.clients = pubsub.clients \ pubsub'.last.raisers
          /\ \A c \in Clients :
                pubsub'.got[c] =
                   IF c \in pubsub.clients
                   THEN Append(pubsub.got[c], pubsub.sent + 1)
                   ELSE pubsub.got[c]
          /\ \A c \in pubsub'.clients :
                pubsub.got[c] = Arrived(pubsub.sent) =>
                   pubsub'.got[c] = Arrived(pubsub'.sent)]_vars

\* C23 witness: of two clients one raised on the first message and was
\* evicted, the other has got every message in arrival order
C23_Witness ==
    \E a, b \in Clients :
        /\ a # b
        /\ pubsub.sent = MaxMessages
        /\ pubsub.clients = {a}
        /\ pubsub.got[a] = Arrived(MaxMessages)
        /\ pubsub.got[b] = <<1>>
        /\ pubsub.last.calls[b] = 0
        /\ pubsub.last.raisers = {}

\* C24: add_client(c) of a registered client leaves the registry as it is,
\* remove_client(c) of a client that is not registered too, every broadcast
\* invokes each registered client once, and remove_client(c) right after
\* add_client(c) restores the registry add_client(c) found.
C24_RegistryIsSet ==
    [][/\ \A c \in Clients :
             /\ (AddClient(c) /\ c \in pubsub.clients) =>
                    pubsub'.clients = pubsub.clients
             /\ (RemoveClient(c) /\ c \notin pubsub.clients) =>
                    pubsub'.clients = pubsub.clients
             /\ (/\ RemoveClient(c)
                 /\ pubsub.call.name = "add" /\ pubsub.call.client = c
                 /\ pubsub.call.fresh) =>
                    pubsub'.clients = pubsub.call.before
       /\ pubsub'.sent # pubsub.sent =>
             \A c \in pubsub.clients : pubsub'.last.calls[c] = 1]_vars

\* C24 amended: as C24, but remove_client(c) right after add_client(c)
\* restores the registry add_client(c) found only when c was not in it; when
\* c was registered before, it leaves that registry without c.
C24_RegistryIsSetAmended ==
    [][/\ \A c \in Clients :
             /\ (AddClient(c) /\ c \in pubsub.clients) =>
                    pubsub'.clients = pubsub.clients
             /\ (RemoveClient(c) /\ c \notin pubsub.clients) =>
                    pubsub'.clients = pubsub.clients
             /\ (/\ RemoveClient(c)
                 /\ pubsub.call.name = "add" /\ pubsub.call.client = c
                 /\ pubsub.call.fresh) =>
                    pubsub'.clients = pubsub.call.before \ {c}
       /\ pubsub'.sent # pubsub.sent =>
             \A c \in pubsub.clients : pubsub'.last.calls[c] = 1]_vars

\* C24 witness: a client was added twice and then removed with no message
\* between, which left the registry another client alone had made
C24_Witness ==
    \E c, d \in Clients :
        /\ c # d
        /\ pubsub.call = [name |-> "remove", client |-> c,
                          before |-> {c, d}, fresh |-> TRUE]
        /\ pubsub.clients = {d}
        /\ pubsub.sent >= 1
        /\ pubsub.got[c] = <<1>>

\* C25: a start_serving call that runs to its end fires start once: without
\* error, in the step that records the listening handle, when create_server
\* succeeds, and with the error when it fails, and then the handle stays
\* unset and create_server is not called again; a second start_serving call
\* calls create_server no more and fires start no more.
C25_StartServing ==
    [][/\ starts'.fires <= 1
       /\ starts'.binds <= 1
       /\ startPc' = "done" <=> starts'.fires = 1
       /\ starts'.fires = 1 <=> startEvent' # "unfired"
       /\ (startEvent = "unfired" /\ startEvent' = "ok") =>
             serving' /\ listening' /\ StartServingFinish
       /\ startEvent' = "error" => ~serving' /\ ~listening'
       /\ StartServingAgain =>
             /\ starts'.binds = starts.binds /\ starts'.fires = starts.fires
             /\ UNCHANGED <<params, serving, listening, startPc, startEvent>>]_vars

\* C25 witness: start_serving was called twice on a server whose first call
\* succeeded, and start has fired once
C25_Witness ==
    /\ starts = [calls |-> 2, binds |-> 1, fires |-> 1]
    /\ startEvent = "ok"
    /\ serving

\* C26: stop_serving on a serving server closes the listening handle and
\* changes nothing else: the open-connection set, the connections with their
\* transports, the session and request counters stay as they are and stop is
\* not fired.
C26_StopServing ==
    [][StopServing =>
          /\ ~listening' /\ ~serving'
          /\ UNCHANGED <<concurrent, conns, sessions, requests_processed,
                         stopFired, tasks>>]_vars

\* C26 witness: stop_serving was called on a server with an open connection
\* that has handled a request; the connection is open and in the set
C26_Witness ==
    /\ startEvent = "ok" /\ ~serving /\ ~listening
    /\ stopFired = 0
    /\ requests_processed >= 1
    /\ \E c \in concurrent : conns[c].transport = "open" /\ conns[c].processed >= 1

\* the consumers of connection c that have been started
Started(c) == {i \in DOMAIN conns[c].consumers : conns[c].consumers[i].started}

\* the sum of the processed counts of the connections 1..k
RECURSIVE SumProcessed(_)
SumProcessed(k) == IF k = 0 THEN 0 ELSE SumProcessed(k - 1) + conns[k].processed

\* C28: the processed count of a connection is the number of its consumers
\* that have been started, by their first chunk or by a start() call, and the
\* producer's requests_processed is the sum of the processed counts of the
\* connections it created.
C28_RequestAccounting ==
    /\ \A c \in DOMAIN conns : conns[c].processed = Cardinality(Started(c))
    /\ requests_processed = SumProcessed(Len(conns))

\* C28 witness: two connections have handled requests, one started by a
\* first chunk and one by a start(request) call, and a start() call on a
\* started consumer has raised
C28_Witness ==
    /\ requests_processed = MaxRequests
    /\ \E c, d \in DOMAIN conns :
          /\ c # d
          /\ conns[c].processed >= 1 /\ conns[d].processed >= 1
          /\ \E i \in Started(c) : conns[c].consumers[i].request = None
          /\ \E i \in Started(d) : conns[d].consumers[i].request = "request"
          /\ conns[c].errors # <<>>

\* C27: create_endpoint fires start once, without error when the endpoint is
\* made of pre-created sockets or by binding the configured address (with
\* the error when the runtime refuses); stop is fired by close() only, once
\* at most over any sequence of create_endpoint and close calls.
C27_EndpointEvents ==
    /\ dgram.calls >= 1 => dgram.start # "unfired"
    /\ dgram.start = "error" => dgram.refused
    /\ dgram.stop # "unfired" => dgram.stopBy = "close"

\* C29: the open-connection set holds exactly the connections for which
\* connection_made has fired and connection_lost has not, also while a
\* close() call waits for the connections to be lost.
C29_OpenConnections ==
    concurrent = {c \in DOMAIN conns : conns[c].made /\ ~conns[c].lost}

\* C30: a consumer gets, when build_consumer builds it, the listeners bound
\* until then to the producer's pre_request and post_request events, and
\* keeps them; a pre_request listener it has got is invoked once when the
\* consumer is started, by start() or by its first chunk, and not before; a
\* post_request listener it has got is invoked once when the consumer
\* finishes, and not before.
C30_ListenerInheritance ==
    [][\A c \in DOMAIN conns' : \A i \in DOMAIN conns'[c].consumers :
          LET k   == conns'[c].consumers[i]
              new == c \notin DOMAIN conns \/ i \notin DOMAIN conns[c].consumers
          IN  /\ k.copied = IF new THEN hooks ELSE conns[c].consumers[i].copied
              /\ "pre_request" \in k.copied =>
                    /\ k.hookPre = (IF k.started THEN 1 ELSE 0)
                    /\ k.hookPre = Cardinality(Idx(conns'[c].log, "pre_request", i))
              /\ "post_request" \in k.copied =>
                    /\ k.hookPost = (IF k.post THEN 1 ELSE 0)
                    /\ k.hookPost = Cardinality(Idx(conns'[c].log, "post_request", i))]_vars

\* C30 witness: a consumer built after both listeners were bound on the
\* server was started by its first chunk and has finished; each listener was
\* invoked once on it
C30_Witness ==
    /\ hooks = ConsumerEvents
    /\ \E c \in DOMAIN conns : \E i \in DOMAIN conns[c].consumers :
          LET k == conns[c].consumers[i]
          IN  /\ k.copied = ConsumerEvents
              /\ k.started /\ k.request = None /\ k.count >= 1
              /\ k.post
              /\ k.hookPre = 1 /\ k.hookPost = 1

\* C31: once connection_lost has fired on a connection its current-consumer
\* slot is empty and no consumer is built on it: none by the listeners of the
\* event, also when upgrade() was called on the consumer that held the slot,
\* with or without an error, and none afterwards.
C31_NoConsumerAfterLoss ==
    [][\A c \in DOMAIN conns' :
          conns'[c].lost =>
             /\ conns'[c].current = 0
             /\ c \in DOMAIN conns =>
                   /\ Len(conns'[c].consumers) = Len(conns[c].consumers)
                   /\ conns'[c].built = conns[c].built]_vars

\* C32: when close() fires stop and resolves, no connection is open and in
\* the open-connection set; this holds too for a connection whose protocol
\* was created before or during close(), the session that reached
\* max_connections included, and whose connection_made was delivered after
\* _close_connections() had collected the open connections.
C32_LateConnectionClosed ==
    [][stopFired' # stopFired =>
          \A c \in DOMAIN conns' :
              ~(conns'[c].transport = "open" /\ c \in concurrent')]_vars

\* C33: whatever the number of upgrade() calls made while a consumer holds
\* the slot, the completion of that consumer invokes the consumer factory
\* once and attaches the consumer it returns: on a connection whose
\* consumers were all started before they finished, set_consumer's assertion
\* has never failed and every consumer the factory has returned was attached.
C33_UpgradeOnce ==
    \A c \in DOMAIN conns :
        LET cn == conns[c]
        IN  (\A i \in DOMAIN cn.consumers :
                \A q \in Idx(cn.log, "post_request", i) :
                    \E p \in Idx(cn.log, "pre_request", i) : p < q)
               => /\ cn.asserted = 0
                  /\ cn.built = Len(cn.consumers)

====
